---- MODULE Spec2Model ----
(***************************************************************************)
(* A model of the deck generator's presentation script                     *)
(* (ppt_agent/skills/scripts/create_presentation.py), of its tool wrapper  *)
(* (ppt_agent/utils/tools.py), of the listing script and of the research   *)
(* sub-agent tool (ppt_agent/subagents/research_agent.py).                 *)
(*                                                                         *)
(* Research text is a sequence of lines, each line a sequence of tokens.   *)
(* A token is a string: a word of letters, a number, a punctuation mark.   *)
(* The text a token sequence stands for is its tokens joined by single     *)
(* spaces, except that ":" "," "%" attach to the token before them and "$" *)
(* to the number after it; lines are joined by the newline token NL.       *)
(* The regular expressions of the script are translated to matchers over   *)
(* token sequences; the alphabet holds no token of which a proper part     *)
(* could match a keyword of a pattern, so a match always starts and ends   *)
(* at token boundaries (a decimal number's trailing digits excepted, see   *)
(* TrailInt).                                                              *)
(***************************************************************************)
EXTENDS Integers, Sequences, FiniteSets, TLC

VARIABLES
  pc,                   \* "idle", then the operation that has run
  topic, num_slides, include_title_slide, research_data,
                        \* the arguments of the last create_powerpoint call
  fault,                \* the fault the environment raised during that call
  now,                  \* the clock datetime.now() reads, in seconds
  slides,               \* prs.slides of that call
  result,               \* the dictionary create_powerpoint returned
  dir_created,          \* whether output_dir exists
  files,                \* the files under output_dir
  tool_return,          \* what the create_presentation tool returned or raised
  text_arg,             \* the argument of a direct call of the extractor or planner
  chart_data,           \* what extract_numbers_from_text returned
  visuals,              \* what parse_research_for_visuals returned
  earlier,              \* the outcome of the call before the last one, if any
  proc,                 \* the frames of the invocations that run concurrently
  subagent              \* the research sub-agent: its checkpointed threads and
                        \* the invocation of research_subagent_tool under way

vars == <<pc, topic, num_slides, include_title_slide, research_data, fault, now,
          slides, result, dir_created, files, tool_return,
          text_arg, chart_data, visuals, earlier, proc, subagent>>

\* The longest research text the model draws, in lines.
MaxLines == 2

(***************************************************************************)
(* Tokens                                                                  *)
(***************************************************************************)
NL == "\n"
\* The tokens standing for the euro sign and the bullet sign (U+2022).
EuroSign == "<euro>"
BulletSign == "<bullet>"

LongLabel == "The United States of America Olympic team"

\* Words of letters (LongLabel: letters and inner spaces), [A-Za-z\s]+ .
LabelWords == {"USA", "China", "Revenue", LongLabel}
MedalWords == {"gold", "silver", "bronze", "medals", "total"}
\* The alternation closing pattern3.
NounWords == {"athletes", "countries", "nations", "events", "sports",
              "participants", "capacity", "billion", "vehicles", "sales",
              "TW"}
WordTokens == LabelWords \cup MedalWords \cup NounWords

\* Number tokens with int(float(token)) and whether a fraction follows.
NumInt == [t \in {"0", "1", "2", "3", "4", "5", "45", "0.5"} |->
             CASE t = "0" -> 0 [] t = "1" -> 1 [] t = "2" -> 2
               [] t = "3" -> 3 [] t = "4" -> 4 [] t = "5" -> 5
               [] t = "45" -> 45 [] t = "0.5" -> 0]
NumTokens == DOMAIN NumInt
HasFraction(t) == t = "0.5"
\* The integer of a token's last run of digits: what (\d+) captures when
\* whitespace must follow it.
TrailInt(t) == IF t = "0.5" THEN 5 ELSE NumInt[t]

IsWord(x) == x \in WordTokens
IsNum(x) == x \in NumTokens
\* \d+ with nothing but digits up to the next token
IsInt(x) == IsNum(x) /\ ~HasFraction(x)
\* 20\d{2}
IsYear(x) == IsInt(x) /\ Len(x) = 4 /\ SubSeq(x, 1, 2) = "20"

At(t, i) == IF i >= 1 /\ i <= Len(t) THEN t[i] ELSE ""

(***************************************************************************)
(* Text helpers                                                            *)
(***************************************************************************)
RECURSIVE JoinLines(_)
\* "\n".join(lines): the text as one token sequence
JoinLines(ls) ==
  IF ls = <<>> THEN <<>>
  ELSE IF Len(ls) = 1 THEN ls[1]
  ELSE ls[1] \o <<NL>> \o JoinLines(Tail(ls))

\* None is the text of no line; "" is the text of one empty line.
None == <<>>
IsNone(rd) == rd = None
\* Python truthiness of an optional string
Truthy(rd) == ~IsNone(rd) /\ JoinLines(rd) # <<>>

RECURSIVE StripLeft(_)
StripLeft(s) == IF s # <<>> /\ Head(s) = NL THEN StripLeft(Tail(s)) ELSE s
RECURSIVE StripRight(_)
StripRight(s) ==
  IF s # <<>> /\ s[Len(s)] = NL THEN StripRight(SubSeq(s, 1, Len(s) - 1)) ELSE s
\* str.strip() of a token sequence
Strip(s) == StripRight(StripLeft(s))

\* Whether a space is rendered between two adjacent tokens.
SpaceBetween(a, b) ==
  /\ a # NL /\ b # NL
  /\ b \notin {":", ",", "%"}
  /\ a # "$"
RECURSIVE CharLen(_)
\* len() of the string a token sequence stands for
CharLen(s) ==
  IF s = <<>> THEN 0
  ELSE IF Len(s) = 1 THEN Len(s[1])
  ELSE Len(s[1]) + (IF SpaceBetween(s[1], s[2]) THEN 1 ELSE 0) + CharLen(Tail(s))

RECURSIVE SkipWs(_, _)
\* \s* : the first index at or after i that holds no whitespace
SkipWs(t, i) == IF i <= Len(t) /\ t[i] = NL THEN SkipWs(t, i + 1) ELSE i
RECURSIVE SkipWsColon(_, _)
\* [\s:]*
SkipWsColon(t, i) ==
  IF i <= Len(t) /\ t[i] \in {NL, ":"} THEN SkipWsColon(t, i + 1) ELSE i
RECURSIVE RunEnd(_, _, _)
\* The index after the longest run from i of tokens of [A-Za-z\s] plus extra.
RunEnd(t, i, extra) ==
  IF i <= Len(t) /\ (IsWord(t[i]) \/ t[i] = NL \/ t[i] \in extra)
  THEN RunEnd(t, i + 1, extra) ELSE i

NoMatch == [ok |-> FALSE]

\* matches[:n]
Take(s, n) == SubSeq(s, 1, IF Len(s) < n THEN Len(s) ELSE n)

(***************************************************************************)
(* extract_numbers_from_text: the four pattern families                    *)
(***************************************************************************)
\* pattern1 = ([A-Z][A-Za-z\s&]+):\s*(\d+)\s*(?:total\s+)?medals?
\* matched from token p (re.IGNORECASE: [A-Z] is any letter)
TryPattern1(t, p) ==
  LET c == RunEnd(t, p, {"&"})
      n == SkipWs(t, c + 1)
      a == SkipWs(t, n + 1)
      m == IF At(t, a) = "total" THEN SkipWs(t, a + 1) ELSE a
  IN IF /\ IsWord(At(t, p))
        /\ At(t, c) = ":"
        /\ IsInt(At(t, n))
        /\ At(t, m) \in {"medals", "medal"}
     THEN [ok |-> TRUE, label |-> SubSeq(t, p, c - 1), value |-> t[n],
           end |-> m + 1]
     ELSE NoMatch

RECURSIVE KeywordsFrom(_, _, _, _)
\* .*?(\d+)\s+kws[1] .*?(\d+)\s+kws[2] ... from pos, the lazy .*? now
\* reaching i: the indices of the captured numbers and the index after the
\* last keyword. "." matches no newline, \s+ does.
KeywordsFrom(t, pos, i, kws) ==
  IF i > Len(t) \/ (i > pos /\ t[i - 1] = NL) THEN NoMatch
  ELSE LET j == SkipWs(t, i + 1)
           here == IsNum(t[i]) /\ At(t, j) = Head(kws)
           rest == IF Len(kws) = 1 THEN [ok |-> TRUE, caps |-> <<>>, end |-> j + 1]
                   ELSE KeywordsFrom(t, j + 1, j + 1, Tail(kws))
       IN IF here /\ rest.ok
          THEN [ok |-> TRUE, caps |-> <<i>> \o rest.caps, end |-> rest.end]
          ELSE KeywordsFrom(t, pos, i + 1, kws)

MedalKeywords == <<"gold", "silver", "bronze">>

\* pattern2 = ([A-Z][A-Za-z\s]+).*?(\d+)\s+gold.*?(\d+)\s+silver.*?(\d+)\s+bronze
TryPattern2(t, p) ==
  LET q == RunEnd(t, p, {})
      k == KeywordsFrom(t, q, q, MedalKeywords)
  IN IF IsWord(At(t, p)) /\ k.ok
     THEN [ok |-> TRUE, country |-> SubSeq(t, p, q - 1),
           gold |-> t[k.caps[1]], silver |-> t[k.caps[2]],
           bronze |-> t[k.caps[3]], end |-> k.end]
     ELSE NoMatch

\* pattern3 = (\d+(?:[,\.]\d+)?)\s*([A-Z]{1,3})?[\s:]*(athletes?|...|sales?)
TryPattern3(t, p) ==
  LET u == SkipWs(t, p + 1)
      ku == SkipWsColon(t, u + 1)
      k0 == SkipWsColon(t, p + 1)
  IN IF ~IsNum(At(t, p)) THEN NoMatch
     ELSE IF IsWord(At(t, u)) /\ Len(t[u]) <= 3 /\ At(t, ku) \in NounWords
     THEN [ok |-> TRUE, value_str |-> t[p], unit |-> t[u], label |-> t[ku],
           end |-> ku + 1]
     ELSE IF At(t, k0) \in NounWords
     THEN [ok |-> TRUE, value_str |-> t[p], unit |-> "", label |-> t[k0],
           end |-> k0 + 1]
     ELSE NoMatch

\* pattern4 = ([A-Z][A-Za-z\s]+|20\d{2}):\s*(?:\$|<euro>)?(\d+(?:[,\.]\d+)?)\s*(billion|million|%)?
TryPattern4(t, p) ==
  LET c == IF IsYear(At(t, p)) THEN p + 1 ELSE RunEnd(t, p, {})
      d == SkipWs(t, c + 1)
      v == IF At(t, d) \in {"$", EuroSign} THEN d + 1 ELSE d
      e == SkipWs(t, v + 1)
      hasUnit == At(t, e) \in {"billion", "million", "%"}
  IN IF /\ IsWord(At(t, p)) \/ IsYear(At(t, p))
        /\ At(t, c) = ":"
        /\ IsNum(At(t, v))
     THEN [ok |-> TRUE, label |-> SubSeq(t, p, c - 1), value |-> t[v],
           unit |-> IF hasUnit THEN t[e] ELSE "",
           end |-> IF hasUnit THEN e + 1 ELSE v + 1]
     ELSE NoMatch

TryPattern(k, t, p) ==
  CASE k = 1 -> TryPattern1(t, p)
    [] k = 2 -> TryPattern2(t, p)
    [] k = 3 -> TryPattern3(t, p)
    [] k = 4 -> TryPattern4(t, p)

RECURSIVE FindAll(_, _, _)
\* re.findall(pattern k, text): the leftmost match from p on, then the
\* search resumed where that match ended.
FindAll(k, t, p) ==
  IF p > Len(t) THEN <<>>
  ELSE LET m == TryPattern(k, t, p) IN
       IF m.ok THEN <<m>> \o FindAll(k, t, m.end)
       ELSE FindAll(k, t, p + 1)

\* str.capitalize(): first letter upper, the rest lower
Capitalize(w) ==
  CASE w = "athletes" -> "Athletes" [] w = "countries" -> "Countries"
    [] w = "nations" -> "Nations" [] w = "events" -> "Events"
    [] w = "sports" -> "Sports" [] w = "participants" -> "Participants"
    [] w = "capacity" -> "Capacity" [] w = "billion" -> "Billion"
    [] w = "vehicles" -> "Vehicles" [] w = "sales" -> "Sales"
    [] w = "TW" -> "Tw"

RECURSIVE Candidates1(_)
\* the loop over pattern1's matches
Candidates1(ms) ==
  IF ms = <<>> THEN <<>>
  ELSE LET label_clean == Strip(Head(ms).label)
       IN (IF CharLen(label_clean) > 1 /\ CharLen(label_clean) < 30
           THEN <<[label |-> label_clean, value |-> NumInt[Head(ms).value]]>>
           ELSE <<>>) \o Candidates1(Tail(ms))

RECURSIVE Candidates2(_)
\* the loop over pattern2's matches
Candidates2(ms) ==
  IF ms = <<>> THEN <<>>
  ELSE LET m == Head(ms)
           total == TrailInt(m.gold) + TrailInt(m.silver) + TrailInt(m.bronze)
       IN (IF Strip(m.country) # <<>> /\ total > 0
           THEN <<[label |-> Strip(m.country), value |-> total]>>
           ELSE <<>>) \o Candidates2(Tail(ms))

RECURSIVE Candidates3(_)
\* the loop over pattern3's matches
Candidates3(ms) ==
  IF ms = <<>> THEN <<>>
  ELSE LET m == Head(ms)
       IN (IF m.unit = "TW" THEN <<>>
           ELSE IF NumInt[m.value_str] >= 1 /\ NumInt[m.value_str] < 1000000
           THEN <<[label |-> <<Capitalize(m.label)>>,
                   value |-> NumInt[m.value_str]]>>
           ELSE <<>>) \o Candidates3(Tail(ms))

RECURSIVE Candidates4(_)
\* the loop over pattern4's matches
Candidates4(ms) ==
  IF ms = <<>> THEN <<>>
  ELSE LET m == Head(ms)
           label == IF m.unit = "billion" THEN Strip(m.label) \o <<"($B)">>
                    ELSE IF m.unit = "%" THEN Strip(m.label) \o <<"(%)">>
                    ELSE m.label
           positive == NumInt[m.value] > 0 \/ HasFraction(m.value)
       IN (IF positive /\ CharLen(Strip(label)) > 1
           THEN <<[label |-> Strip(label), value |-> NumInt[m.value]]>>
           ELSE <<>>) \o Candidates4(Tail(ms))

\* chart_data before deduplication: the four families, concatenated
AllCandidates(t) ==
  Candidates1(FindAll(1, t, 1))
    \o Candidates2(FindAll(2, t, 1))
    \o Candidates3(Take(FindAll(3, t, 1), 10))
    \o Candidates4(Take(FindAll(4, t, 1), 10))

RECURSIVE DedupeReservingLabel(_, _)
\* Deduplication in which a candidate of non-positive value reserves its label.
DedupeReservingLabel(cands, seen) ==
  IF cands = <<>> THEN <<>>
  ELSE LET c == Head(cands) IN
       IF c.label \notin seen /\ c.value > 0
       THEN <<c>> \o DedupeReservingLabel(Tail(cands), seen \cup {c.label})
       ELSE DedupeReservingLabel(Tail(cands), seen \cup {c.label})

RECURSIVE Dedupe(_, _)
\* the loop "for label, value in chart_data: if label not in seen and value > 0"
Dedupe(cands, seen) ==
  IF cands = <<>> THEN <<>>
  ELSE LET c == Head(cands) IN
       IF c.label \notin seen /\ c.value > 0
       THEN <<c>> \o Dedupe(Tail(cands), seen \cup {c.label})
       ELSE Dedupe(Tail(cands), seen)

MaxFacts == 8
\* Extraction that cuts the result one Fact too late.
ExtractWithLateCap(text) ==
  Take(Dedupe(AllCandidates(JoinLines(text)), {}), MaxFacts + 1)
extract_numbers_from_text(text) ==
  Take(Dedupe(AllCandidates(JoinLines(text)), {}), MaxFacts)

(***************************************************************************)
(* parse_research_for_visuals                                              *)
(***************************************************************************)
\* str.lower() of a token
Lower(w) ==
  CASE w = "USA" -> "usa" [] w = "China" -> "china" [] w = "Revenue" -> "revenue"
    [] w = LongLabel -> "the united states of america olympic team"
    [] w = "Athletes" -> "athletes" [] w = "Countries" -> "countries"
    [] w = "Nations" -> "nations" [] w = "Events" -> "events"
    [] w = "Sports" -> "sports" [] w = "Participants" -> "participants"
    [] w = "Capacity" -> "capacity" [] w = "Billion" -> "billion"
    [] w = "Vehicles" -> "vehicles" [] w = "Sales" -> "sales"
    [] w = "Tw" -> "tw" [] w = "TW" -> "tw" [] w = "($B)" -> "($b)"
    [] w = "Sources" -> "sources" [] w = "Summary:" -> "summary:"
    [] w = "**Key" -> "**key" [] w = "Findings:**" -> "findings:**"
    [] w = "**Solar**" -> "**solar**" [] w = "**Asia**" -> "**asia**"
    [] OTHER -> w

SummaryWords == {"athletes", "countries", "events", "sports", "participants"}

\* any(word in label.lower() for word in [...]): no token of the alphabet
\* holds a summary word as a proper part
IsSummaryLabel(label) == \E i \in 1..Len(label) : Lower(label[i]) \in SummaryWords

RECURSIVE Filter(_, _)
\* [x for x in s if x's label is a summary label = want]
Filter(s, want) ==
  IF s = <<>> THEN <<>>
  ELSE (IF IsSummaryLabel(Head(s).label) = want THEN <<Head(s)>> ELSE <<>>)
         \o Filter(Tail(s), want)

\* re.search(r'(\d+)\s+gold.*?(\d+)\s+silver.*?(\d+)\s+bronze') from token p
TryMedalTypes(t, p) ==
  LET j == SkipWs(t, p + 1)
      k == KeywordsFrom(t, j + 1, j + 1, <<"silver", "bronze">>)
  IN IF IsNum(At(t, p)) /\ At(t, j) = "gold" /\ k.ok
     THEN [ok |-> TRUE, gold |-> t[p], silver |-> t[k.caps[1]],
           bronze |-> t[k.caps[2]]]
     ELSE NoMatch

RECURSIVE SearchMedalTypes(_, _)
\* re.search: the leftmost match
SearchMedalTypes(t, p) ==
  IF p > Len(t) THEN NoMatch
  ELSE IF TryMedalTypes(t, p).ok THEN TryMedalTypes(t, p)
  ELSE SearchMedalTypes(t, p + 1)

Digit == <<"1", "2", "3", "4", "5", "6", "7", "8", "9">>
RECURSIVE Str(_)
\* str(value) of a non-negative integer
Str(n) ==
  IF n = 0 THEN "0"
  ELSE IF n < 10 THEN Digit[n]
  ELSE Str(n \div 10) \o (IF n % 10 = 0 THEN "0" ELSE Digit[n % 10])

RECURSIVE RowsNewestFirst(_)
\* Table rows inserted at the front instead of appended.
RowsNewestFirst(stats) ==
  IF stats = <<>> THEN <<>>
  ELSE RowsNewestFirst(Tail(stats)) \o << <<Head(stats).label, Str(Head(stats).value)>> >>

RECURSIVE TableRows(_)
\* table_data.append([label, str(value)])
TableRows(stats) ==
  IF stats = <<>> THEN <<>>
  ELSE << <<Head(stats).label, Str(Head(stats).value)>> >> \o TableRows(Tail(stats))

StartsWith(tok, prefix) ==
  Len(tok) >= Len(prefix) /\ SubSeq(tok, 1, Len(prefix)) = prefix
EndsWith(tok, suffix) ==
  Len(tok) >= Len(suffix) /\ SubSeq(tok, Len(tok) - Len(suffix) + 1, Len(tok)) = suffix
\* line.startswith(prefix) / line.endswith(suffix) of a stripped line
LineStartsWith(line, prefix) == line # <<>> /\ StartsWith(line[1], prefix)
LineEndsWith(line, suffix) == line # <<>> /\ EndsWith(line[Len(line)], suffix)

RECURSIVE LStripDashes(_)
\* line.lstrip('- ')
LStripDashes(line) ==
  IF line # <<>> /\ Head(line) = "-" THEN LStripDashes(Tail(line)) ELSE line

RECURSIVE Suggestions(_, _)
\* the loop that collects the bullets of the visual-suggestions section
Suggestions(lines, in_visual_section) ==
  IF lines = <<>> THEN <<>>
  ELSE LET line == Head(lines) IN
       IF \E i \in 1..Len(line) :
            line[i] \in {"**Visual Suggestions:**", "**Visualizations:**"}
       THEN Suggestions(Tail(lines), TRUE)
       ELSE IF ~in_visual_section THEN Suggestions(Tail(lines), FALSE)
       ELSE IF LineStartsWith(line, "**") /\ LineEndsWith(line, "**")
       THEN Suggestions(Tail(lines), FALSE)
       ELSE IF LineStartsWith(line, "-") /\ LStripDashes(line) # <<>>
       THEN <<LStripDashes(line)>> \o Suggestions(Tail(lines), TRUE)
       ELSE Suggestions(Tail(lines), TRUE)

\* An initial planner result that already holds a placeholder chart.
VisualsWithPlaceholder ==
  [bar_charts |-> <<[title |-> "Medal Count by Country", data |-> <<>>]>>,
   pie_charts |-> <<>>, tables |-> <<>>, suggestions |-> <<>>]
NoVisuals ==
  [bar_charts |-> <<>>, pie_charts |-> <<>>, tables |-> <<>>, suggestions |-> <<>>]

\* A bar chart threshold of three entities.
ThreeEntitiesEnough(country_data) == Len(country_data) >= 3
\* if len(country_data) >= 2
EnoughEntities(country_data) == Len(country_data) >= 2
\* A table threshold of a single statistic.
OneStatEnough(summary_stats) == Len(summary_stats) >= 1
\* if len(summary_stats) >= 2
EnoughStats(summary_stats) == Len(summary_stats) >= 2

\* the body of "if chart_data:" given the extracted facts
VisualsFrom(rd, facts) ==
  LET text == JoinLines(rd)
      country_data == Filter(facts, FALSE)
      medal_types_match == SearchMedalTypes(text, 1)
      summary_stats == Filter(facts, TRUE)
  IN [bar_charts |->
        IF EnoughEntities(country_data)
        THEN <<[title |-> "Medal Count by Country", data |-> Take(country_data, 8)]>>
        ELSE <<>>,
      pie_charts |->
        IF medal_types_match.ok
        THEN <<[title |-> "Medal Type Distribution",
                data |-> <<[label |-> <<"Gold">>,
                            value |-> TrailInt(medal_types_match.gold)],
                           [label |-> <<"Silver">>,
                            value |-> TrailInt(medal_types_match.silver)],
                           [label |-> <<"Bronze">>,
                            value |-> TrailInt(medal_types_match.bronze)]>>]>>
        ELSE <<>>,
      tables |->
        IF EnoughStats(summary_stats)
        THEN <<[title |-> "Event Statistics",
                data |-> << <<"Metric", "Count">> >>
                           \o TableRows(Take(summary_stats, 5))]>>
        ELSE <<>>,
      suggestions |-> Suggestions(rd, FALSE)]

parse_research_for_visuals(rd) ==
  IF ~Truthy(rd) THEN NoVisuals
  ELSE LET facts == extract_numbers_from_text(rd) IN
       IF facts # <<>> THEN VisualsFrom(rd, facts)
       ELSE [NoVisuals EXCEPT !.suggestions = Suggestions(rd, FALSE)]

(***************************************************************************)
(* The research texts the model draws                                      *)
(***************************************************************************)
\* The lines a research text is made of.
LineShapes ==
  { <<>>,
    <<"USA", ":", "5", "medals">>,
    <<"China", ":", "3", "total", "medals">>,
    <<"USA", ":", "4", "gold", ",", "2", "silver", ",", "1", "bronze">>,
    <<"4", "gold", ",", "2", "silver", ",", "1", "bronze">>,
    <<LongLabel, ":", "5", "medals">>,
    <<"5", "athletes", ",", "5", "countries", ",", "5", "nations", ",",
      "5", "events", ",", "5", "sports">>,
    <<"3", "participants", ",", "3", "capacity", ",", "3", "vehicles", ",",
      "3", "sales", ",", "USA", ":", "0", "medals">>,
    <<"2", "TW", "capacity">>,
    <<"Revenue", ":", "$", "0.5", "billion", ",", "China", ":", "45", "%">> }

\* Every text of 1..MaxLines lines ("" is the text of one empty line).
Texts == UNION { [1..n -> LineShapes] : n \in 1..MaxLines }

(***************************************************************************)
(* create_powerpoint                                                       *)
(***************************************************************************)
RECURSIVE StripStr(_)
\* str.strip() of a string of characters
StripStr(s) ==
  IF s = "" THEN s
  ELSE IF SubSeq(s, 1, 1) = " " THEN StripStr(SubSeq(s, 2, Len(s)))
  ELSE IF SubSeq(s, Len(s), Len(s)) = " " THEN StripStr(SubSeq(s, 1, Len(s) - 1))
  ELSE s

MinSlides == 1
MaxSlides == 20
\* not (num_slides < 1 or num_slides > 20)
ValidNumSlides(n) == ~(n < MinSlides \/ n > MaxSlides)
\* not (not topic or len(topic.strip()) == 0)
\* A topic check that forgets topic.strip().
NonEmptyTopic(tp) == tp # ""
ValidTopic(tp) == ~(tp = "" \/ Len(StripStr(tp)) = 0)

\* datetime.now().strftime('%B %d, %Y'): the day of a clock reading in seconds
DateOf(clk) == clk \div 86400

TitleSlide(tp, rd, clk) ==
  [kind |-> "title", title |-> tp,
   body |-> <<[text |-> <<"Generated on", DateOf(clk)>>
                          \o (IF Truthy(rd)
                              THEN <<"| Research-Enhanced Presentation">>
                              ELSE <<>>),
               level |-> 0]>>]

RECURSIVE SelectLines(_, _)
\* [line.strip() for line in lines if line.strip() and not <startswith marks>]
SelectLines(lines, marks) ==
  IF lines = <<>> THEN <<>>
  ELSE (IF Head(lines) # <<>> /\ \A m \in marks : ~LineStartsWith(Head(lines), m)
        THEN <<Head(lines)>> ELSE <<>>) \o SelectLines(Tail(lines), marks)

\* tok.replace('**', '') of a token wrapped in the bold delimiter
Unbold(tok) ==
  LET a == IF StartsWith(tok, "**") THEN SubSeq(tok, 3, Len(tok)) ELSE tok
  IN IF EndsWith(a, "**") THEN SubSeq(a, 1, Len(a) - 2) ELSE a

RECURSIVE CleanLine(_)
\* line.replace('**', '').replace('- ', '').replace('* ', '')
CleanLine(line) ==
  IF line = <<>> THEN <<>>
  ELSE IF Head(line) \in {"-", "*"} /\ Len(line) > 1 THEN CleanLine(Tail(line))
  ELSE <<Unbold(Head(line))>> \o CleanLine(Tail(line))

RECURSIVE FindingsParagraphs(_)
\* the loop over research_lines[1:8]
FindingsParagraphs(lines) ==
  IF lines = <<>> THEN <<>>
  ELSE LET line == Head(lines) IN
       (IF line # <<"**">> /\ ~LineStartsWith(line, "**")
        THEN <<[text |-> CleanLine(line),
                level |-> IF LineStartsWith(line, "-") \/ LineStartsWith(line, "*")
                          THEN 0 ELSE 1]>>
        ELSE <<>>) \o FindingsParagraphs(Tail(lines))

FindingsSlide(rd) ==
  LET research_lines == SelectLines(rd, {"#"})
  IN [kind |-> "findings", title |-> "Key Research Findings",
      body |->
        IF research_lines # <<>>
        THEN <<[text |-> research_lines[1], level |-> 0]>>
               \o FindingsParagraphs(SubSeq(research_lines, 2,
                      IF Len(research_lines) < 8 THEN Len(research_lines) ELSE 8))
        ELSE <<[text |-> <<"Research findings incorporated throughout presentation">>,
                level |-> 0]>>]

\* if not chart_data_list or len(chart_data_list) < 2: return None
\* A guard that asks for four data points.
FewerThanFourPoints(data) == data = <<>> \/ Len(data) < 4
TooFewPoints(data) == data = <<>> \/ Len(data) < 2

\* create_bar_chart_slide: the slides it adds
create_bar_chart_slide(title, data) ==
  IF TooFewPoints(data) THEN <<>>
  ELSE <<[kind |-> "bar", title |-> title, body |-> <<>>, data |-> data]>>
\* create_pie_chart_slide: the slides it adds
create_pie_chart_slide(title, data) ==
  IF TooFewPoints(data) THEN <<>>
  ELSE <<[kind |-> "pie", title |-> title, body |-> <<>>, data |-> data]>>
\* create_table_slide: the slides it adds
create_table_slide(title, table_data) ==
  IF TooFewPoints(table_data) THEN <<>>
  ELSE <<[kind |-> "table", title |-> title, body |-> <<>>, data |-> table_data]>>

RECURSIVE ChartSlides(_, _)
\* the three loops over visuals['bar_charts'], ['pie_charts'], ['tables']
ChartSlides(artifacts, kind) ==
  IF artifacts = <<>> THEN <<>>
  ELSE (CASE kind = "bar" -> create_bar_chart_slide(Head(artifacts).title, Head(artifacts).data)
          [] kind = "pie" -> create_pie_chart_slide(Head(artifacts).title, Head(artifacts).data)
          [] kind = "table" -> create_table_slide(Head(artifacts).title, Head(artifacts).data))
         \o ChartSlides(Tail(artifacts), kind)

RECURSIVE StripMarkers(_, _)
\* for marker in ['- ', '* ', '<bullet> ']: if cleaned.startswith(marker): cut it
StripMarkers(line, markers) ==
  IF markers = <<>> THEN line
  ELSE IF Len(line) > 1 /\ Head(line) = Head(markers)
  THEN StripMarkers(Tail(line), Tail(markers))
  ELSE StripMarkers(line, Tail(markers))

SectionLabels ==
  { <<"key", "findings">>, <<"visual", "suggestions">>, <<"sources">>,
    <<"key", "insight">> }

\* cleaned.lower().startswith(phrase)
StartsWithPhrase(line, phrase) ==
  /\ Len(line) >= Len(phrase)
  /\ \A i \in 1..Len(phrase) :
       IF i < Len(phrase) THEN Lower(line[i]) = phrase[i]
       ELSE StartsWith(Lower(line[i]), phrase[i])

\* ':' in cleaned[:30]
ColonInFirst30(line) ==
  \E i \in 1..Len(line) :
    \E k \in 1..Len(line[i]) :
      /\ SubSeq(line[i], k, k) = ":"
      /\ CharLen(SubSeq(line, 1, i)) - (Len(line[i]) - k) <= 30

RECURSIVE ResearchBullets(_)
\* the loop that fills research_bullets
ResearchBullets(lines) ==
  IF lines = <<>> THEN <<>>
  ELSE LET line == Head(lines)
           cleaned == StripMarkers(line, <<"-", "*", BulletSign>>)
       IN (IF \/ line = <<>>
              \/ LineStartsWith(line, "#") \/ LineStartsWith(line, "http")
              \/ LineStartsWith(line, "**") \/ LineEndsWith(line, "**")
           THEN <<>>
           ELSE IF /\ CharLen(cleaned) > 15
                   /\ \A ph \in SectionLabels : ~StartsWithPhrase(cleaned, ph)
                   /\ ~LineStartsWith(cleaned, "http")
                   /\ ~ColonInFirst30(cleaned)
           THEN <<cleaned>>
           ELSE <<>>) \o ResearchBullets(Tail(lines))

\* research_bullets as create_powerpoint fills it from research_data
research_bullets ==
  IF Truthy(research_data) THEN ResearchBullets(research_data) ELSE <<>>

Max(a, b) == IF a > b THEN a ELSE b
Min(a, b) == IF a < b THEN a ELSE b

\* A distribution without the minimum budget of 3.
SlideBulletsEvenSplit(bullets, n, i) ==
  LET bullets_per_slide == Len(bullets) \div n
      start_idx == (i - 1) * bullets_per_slide
      end_idx == Min(start_idx + bullets_per_slide, Len(bullets))
  IN SubSeq(bullets, start_idx + 1, end_idx)
\* A distribution whose windows overlap by one bullet.
SlideBulletsOverlapping(bullets, n, i) ==
  LET bullets_per_slide == Max(3, Len(bullets) \div n)
      start_idx == (i - 1) * (bullets_per_slide - 1)
      end_idx == Min(start_idx + bullets_per_slide, Len(bullets))
  IN SubSeq(bullets, start_idx + 1, end_idx)
\* A distribution with a minimum budget of 2.
SlideBulletsMinTwo(bullets, n, i) ==
  LET bullets_per_slide == Max(2, Len(bullets) \div n)
      start_idx == (i - 1) * bullets_per_slide
      end_idx == Min(start_idx + bullets_per_slide, Len(bullets))
  IN SubSeq(bullets, start_idx + 1, end_idx)
\* A distribution whose last slide takes every remaining bullet.
SlideBulletsLastTakesRest(bullets, n, i) ==
  LET bullets_per_slide == Max(3, Len(bullets) \div n)
      start_idx == (i - 1) * bullets_per_slide
      end_idx == IF i = n THEN Len(bullets)
                 ELSE Min(start_idx + bullets_per_slide, Len(bullets))
  IN SubSeq(bullets, start_idx + 1, end_idx)
\* research_bullets[start_idx:end_idx] for slide i (1-indexed) of n
SlideBullets(bullets, n, i) ==
  LET bullets_per_slide == Max(3, Len(bullets) \div n)
      start_idx == (i - 1) * bullets_per_slide
      end_idx == Min(start_idx + bullets_per_slide, Len(bullets))
  IN SubSeq(bullets, start_idx + 1, end_idx)

\* A content slide that takes the bullet branch whenever research is given.
ContentSlideIgnoringEmpty(tp, n, rd, bullets, i) ==
  [kind |-> "content", title |-> <<tp, "- Point", i>>,
   body |->
     IF Truthy(rd)
     THEN LET slide_bullets == SlideBullets(bullets, n, i) IN
          IF slide_bullets # <<>>
          THEN [k \in 1..Len(slide_bullets) |->
                  [text |-> slide_bullets[k], level |-> 0]]
          ELSE <<[text |-> <<"Additional insights related to", tp>>, level |-> 0]>>
     ELSE <<[text |-> <<"Key concept", i, "related to", tp>>, level |-> 0]>>
            \o [j \in 1..3 |->
                  [text |-> <<"Supporting detail", j, "for concept", i>>,
                   level |-> 1]]]
\* A content slide left blank when its slice is empty.
ContentSlideBlankWhenEmpty(tp, n, rd, bullets, i) ==
  [kind |-> "content", title |-> <<tp, "- Point", i>>,
   body |->
     IF Truthy(rd) /\ bullets # <<>>
     THEN LET slide_bullets == SlideBullets(bullets, n, i) IN
          [k \in 1..Len(slide_bullets) |->
             [text |-> slide_bullets[k], level |-> 0]]
     ELSE <<[text |-> <<"Key concept", i, "related to", tp>>, level |-> 0]>>
            \o [j \in 1..3 |->
                  [text |-> <<"Supporting detail", j, "for concept", i>>,
                   level |-> 1]]]
\* the body of "for i in range(1, num_slides + 1)"
ContentSlide(tp, n, rd, bullets, i) ==
  [kind |-> "content", title |-> <<tp, "- Point", i>>,
   body |->
     IF Truthy(rd) /\ bullets # <<>>
     THEN LET slide_bullets == SlideBullets(bullets, n, i) IN
          IF slide_bullets # <<>>
          THEN [k \in 1..Len(slide_bullets) |->
                  [text |-> slide_bullets[k], level |-> 0]]
          ELSE <<[text |-> <<"Additional insights related to", tp>>, level |-> 0]>>
     ELSE <<[text |-> <<"Key concept", i, "related to", tp>>, level |-> 0]>>
            \o [j \in 1..3 |->
                  [text |-> <<"Supporting detail", j, "for concept", i>>,
                   level |-> 1]]]

\* visuals = parse_research_for_visuals(research_data) if research_data else {...}
PlannedVisuals(rd) == IF Truthy(rd) THEN parse_research_for_visuals(rd) ELSE NoVisuals

\* A composition that adds the content slides before the visual slides.
SlidesWithVisualsLast(tp, n, its, rd, clk, v, bullets) ==
  (IF its THEN <<TitleSlide(tp, rd, clk)>> ELSE <<>>)
    \o (IF Truthy(rd) THEN <<FindingsSlide(rd)>> ELSE <<>>)
    \o [i \in 1..n |-> ContentSlide(tp, n, rd, bullets, i)]
    \o ChartSlides(v.bar_charts, "bar")
    \o ChartSlides(v.pie_charts, "pie")
    \o ChartSlides(v.tables, "table")
\* prs.slides after the last content slide is added, v being the visuals
\* and bullets the research_bullets the function computed on the way
SlidesOf(tp, n, its, rd, clk, v, bullets) ==
  (IF its THEN <<TitleSlide(tp, rd, clk)>> ELSE <<>>)
    \o (IF Truthy(rd) THEN <<FindingsSlide(rd)>> ELSE <<>>)
    \o ChartSlides(v.bar_charts, "bar")
    \o ChartSlides(v.pie_charts, "pie")
    \o ChartSlides(v.tables, "table")
    \o [i \in 1..n |-> ContentSlide(tp, n, rd, bullets, i)]

Alnum == "ABCDEFGHIJKLMNOPQRSTUVWXYZabcdefghijklmnopqrstuvwxyz0123456789"
\* c if c.isalnum() or c.isspace() else "_", then " " replaced by "_"
SafeChar(c) ==
  IF \E k \in 1..Len(Alnum) : SubSeq(Alnum, k, k) = c THEN c ELSE "_"
RECURSIVE SafeTopic(_)
SafeTopic(tp) ==
  IF tp = "" THEN ""
  ELSE SafeChar(SubSeq(tp, 1, 1)) \o SafeTopic(SubSeq(tp, 2, Len(tp)))

\* os.path.join(output_dir, f"{safe_topic[:50]}_{timestamp}.pptx")
FilePath(out, tp, clk) == <<out, Take(SafeTopic(tp), 50), clk>>

NoPath == <<>>

InvalidNumSlides ==
  [success |-> FALSE, error |-> "num_slides must be between 1 and 20",
   filepath |-> NoPath]
InvalidTopic ==
  [success |-> FALSE, error |-> "topic cannot be empty", filepath |-> NoPath]
\* A failure result that hides the exception text.
FailedWithoutText(e) ==
  [success |-> FALSE, error |-> "error", filepath |-> NoPath,
   message |-> <<"Error creating PowerPoint presentation:", "error">>]
\* the dictionary the except clause returns, e being str(e)
Failed(e) ==
  [success |-> FALSE, error |-> e, filepath |-> NoPath,
   message |-> <<"Error creating PowerPoint presentation:", e>>]
\* total_slides = num_slides + (1 if include_title_slide else 0)
TotalSlides(n, its) == n + (IF its THEN 1 ELSE 0)
Created(path, total) ==
  [success |-> TRUE, filepath |-> path, total_slides |-> total,
   message |-> <<"PowerPoint presentation created successfully:", path,
                 "Total slides:", total>>]

\* A presentation object that lives on from call to call.
SharedPresentation == slides
\* prs = Presentation(): the slides of a new presentation
Presentation == <<>>

\* The faults the environment can raise inside the try block: in os.makedirs,
\* in Presentation() or in prs.save.
Faults == {"none", "makedirs", "build", "save"}

\* The body of create_powerpoint, v and bullets as in SlidesOf: its result,
\* the slides of prs, the visuals it planned, whether os.makedirs ran to
\* completion and the files prs.save wrote.
Compose(tp, n, its, out, rd, clk, flt, v, bullets) ==
  IF ~ValidNumSlides(n)
  THEN [result |-> InvalidNumSlides, slides |-> <<>>, visuals |-> NoVisuals,
        made |-> FALSE, saved |-> {}]
  ELSE IF ~ValidTopic(tp)
  THEN [result |-> InvalidTopic, slides |-> <<>>, visuals |-> NoVisuals,
        made |-> FALSE, saved |-> {}]
  ELSE IF flt = "makedirs"
  THEN [result |-> Failed("makedirs"), slides |-> <<>>, visuals |-> NoVisuals,
        made |-> FALSE, saved |-> {}]
  ELSE IF flt = "build"
  THEN [result |-> Failed("build"), slides |-> <<>>, visuals |-> NoVisuals,
        made |-> TRUE, saved |-> {}]
  ELSE IF flt = "save"
  THEN [result |-> Failed("save"), slides |-> SlidesOf(tp, n, its, rd, clk, v, bullets),
        visuals |-> v, made |-> TRUE, saved |-> {}]
  ELSE [result |-> Created(FilePath(out, tp, clk), TotalSlides(n, its)),
        slides |-> SlidesOf(tp, n, its, rd, clk, v, bullets),
        visuals |-> v, made |-> TRUE, saved |-> {FilePath(out, tp, clk)}]

create_powerpoint(tp, n, its, out, rd, clk, flt) ==
  Compose(tp, n, its, out, rd, clk, flt, PlannedVisuals(rd),
          IF Truthy(rd) THEN ResearchBullets(rd) ELSE <<>>)

(***************************************************************************)
(* The state machine: one call of the extractor, of the planner, or of the *)
(* create_presentation tool, which calls create_powerpoint and returns its *)
(* message.                                                                *)
(***************************************************************************)
Topics == {"", "  ", "A I"}
NumSlidesInputs == {MinSlides - 1, MinSlides, MinSlides + 1, MaxSlides, MaxSlides + 1}
ResearchInputs == {None} \cup Texts
OutputDir == "./output"

NoResult == [pending |-> TRUE]

\* config={"configurable": {"thread_id": "research_subagent"}}: the thread
\* every invocation of research_subagent_tool runs on
ThreadIds == {"research_subagent"}
\* The sub-agent graph as the module creates it: a MemorySaver that holds no
\* thread, and no invocation made.
IdleSubagent ==
  [threads |-> [t \in ThreadIds |-> <<>>], call |-> 0, query |-> "",
   steps |-> 0, pending |-> 0, searches |-> 0, status |-> "idle"]

Init ==
  /\ pc = "idle"
  /\ topic = "" /\ num_slides = 0 /\ include_title_slide = FALSE
  /\ research_data = None /\ fault = "none" /\ now = 0
  /\ slides = <<>> /\ result = NoResult
  /\ dir_created = FALSE /\ files = {}
  /\ tool_return = NoResult
  /\ text_arg = None /\ chart_data = <<>> /\ visuals = NoVisuals
  /\ earlier = NoResult /\ proc = <<>> /\ subagent = IdleSubagent

\* a direct call extract_numbers_from_text(text)
ExtractNumbers ==
  /\ pc = "idle"
  /\ \E text \in Texts :
       /\ text_arg' = text
       /\ chart_data' = extract_numbers_from_text(text)
  /\ pc' = "extracted"
  /\ UNCHANGED <<topic, num_slides, include_title_slide, research_data, fault, now,
                 slides, result, dir_created, files, tool_return, visuals, earlier, proc, subagent>>

\* a direct call parse_research_for_visuals(research_data)
ParseResearch ==
  /\ pc = "idle"
  /\ \E rd \in ResearchInputs :
       /\ text_arg' = rd
       /\ visuals' = parse_research_for_visuals(rd)
  /\ pc' = "parsed"
  /\ UNCHANGED <<topic, num_slides, include_title_slide, research_data, fault, now,
                 slides, result, dir_created, files, tool_return, chart_data, earlier, proc, subagent>>

\* the create_presentation tool calls create_powerpoint(...)
CreatePowerpoint ==
  /\ pc = "idle"
  /\ \E rd \in ResearchInputs :
       LET v == PlannedVisuals(rd)
           bullets == IF Truthy(rd) THEN ResearchBullets(rd) ELSE <<>>
       IN \E tp \in Topics, n \in NumSlidesInputs, its \in BOOLEAN, flt \in Faults :
            LET o == Compose(tp, n, its, OutputDir, rd, now, flt, v, bullets) IN
            /\ topic' = tp /\ num_slides' = n /\ include_title_slide' = its
            /\ research_data' = rd /\ fault' = flt
            /\ slides' = Presentation \o o.slides
            /\ result' = o.result
            /\ visuals' = o.visuals
            /\ dir_created' = (dir_created \/ o.made)
            /\ files' = files \cup o.saved
  /\ pc' = "created"
  /\ UNCHANGED <<now, tool_return, text_arg, chart_data, earlier, proc, subagent>>

\* the tool's "return result["message"]"
CreatePresentationReturn ==
  /\ pc = "created"
  /\ tool_return' = IF "message" \in DOMAIN result
                    THEN [returned |-> result.message]
                    ELSE [raised |-> "KeyError"]
  /\ pc' = "returned"
  /\ UNCHANGED <<topic, num_slides, include_title_slide, research_data, fault, now,
                 slides, result, dir_created, files, text_arg, chart_data, visuals, earlier, proc, subagent>>

Next ==
  \/ ExtractNumbers
  \/ ParseResearch
  \/ CreatePowerpoint
  \/ CreatePresentationReturn

Spec == Init /\ [][Next]_vars

(***************************************************************************)
(* Two calls of create_powerpoint in a row with the same arguments, the    *)
(* second in the process state the first one left.                         *)
(***************************************************************************)
\* create_powerpoint called in a process that has called it at most once: the
\* first call with any arguments, the second with the arguments of the first
\* once that one has composed a deck, at the same clock reading or a day
\* later
CreatePowerpointCall ==
  /\ pc \in {"idle", "created"}
  /\ pc = "created" =>
       /\ ValidNumSlides(num_slides) /\ ValidTopic(topic)
       /\ fault \notin {"makedirs", "build"}
  /\ \E rd \in IF pc = "idle" THEN ResearchInputs ELSE {research_data} :
       LET v == PlannedVisuals(rd)
           bullets == IF Truthy(rd) THEN ResearchBullets(rd) ELSE <<>>
       IN \E tp \in IF pc = "idle" THEN Topics ELSE {topic},
             n \in IF pc = "idle" THEN NumSlidesInputs ELSE {num_slides},
             its \in IF pc = "idle" THEN BOOLEAN ELSE {include_title_slide},
             flt \in IF pc = "idle" THEN Faults ELSE {fault},
             clk \in IF pc = "idle" THEN {now} ELSE {now, now + 86400} :
            LET o == Compose(tp, n, its, OutputDir, rd, clk, flt, v, bullets) IN
            /\ topic' = tp /\ num_slides' = n /\ include_title_slide' = its
            /\ research_data' = rd /\ fault' = flt
            /\ earlier' = IF pc = "idle" THEN earlier
                          ELSE [slides |-> slides, result |-> result,
                                visuals |-> visuals, at |-> now]
            /\ now' = clk
            /\ slides' = Presentation \o o.slides
            /\ result' = o.result
            /\ visuals' = o.visuals
            /\ dir_created' = (dir_created \/ o.made)
            /\ files' = files \cup o.saved
  /\ pc' = IF pc = "idle" THEN "created" ELSE "created_again"
  /\ UNCHANGED <<tool_return, text_arg, chart_data, proc, subagent>>

RepeatNext == CreatePowerpointCall

RepeatSpec == Init /\ [][RepeatNext]_vars

(***************************************************************************)
(* Two invocations of create_powerpoint that run concurrently, each in its *)
(* own frame; they share the file system and the clock.  A step is a       *)
(* stretch of the function between two accesses of the file system.        *)
(***************************************************************************)
Procs == {1, 2}

\* A text that yields a bar chart, a pie chart and a table.
SampleResearch ==
  << <<"USA", ":", "4", "gold", ",", "2", "silver", ",", "1", "bronze">>,
     <<"5", "athletes", ",", "5", "countries", ",", "5", "nations", ",",
       "5", "events", ",", "5", "sports">> >>

\* The frame of an invocation at its start.
Frame(tp, n, rd, flt) ==
  [pc |-> "start", topic |-> tp, num_slides |-> n, include_title_slide |-> TRUE,
   research_data |-> rd, fault |-> flt,
   slides |-> <<>>, visuals |-> NoVisuals, research_bullets |-> <<>>,
   result |-> NoResult]
Frames ==
  {Frame(tp, n, rd, flt) : tp \in {"A I", ""}, n \in {MinSlides, MinSlides + 1},
                           rd \in {None, SampleResearch}, flt \in Faults}

\* One frame for every caller, whichever invocation runs.
SharedScope(p) == 1
\* prs, visuals and research_bullets are local variables: invocation p reads
\* and writes those of its own frame
Scope(p) == p

ConcInit ==
  /\ pc = "concurrent"
  /\ proc \in [Procs -> Frames] /\ subagent = IdleSubagent
  /\ topic = "" /\ num_slides = 0 /\ include_title_slide = FALSE
  /\ research_data = None /\ fault = "none" /\ now = 0
  /\ slides = <<>> /\ result = NoResult
  /\ dir_created = FALSE /\ files = {}
  /\ tool_return = NoResult
  /\ text_arg = None /\ chart_data = <<>> /\ visuals = NoVisuals
  /\ earlier = NoResult

\* the two validation checks
Validate(p) ==
  /\ proc[p].pc = "start"
  /\ proc' = IF ~ValidNumSlides(proc[p].num_slides)
             THEN [proc EXCEPT ![p].result = InvalidNumSlides, ![p].pc = "done"]
             ELSE IF ~ValidTopic(proc[p].topic)
             THEN [proc EXCEPT ![p].result = InvalidTopic, ![p].pc = "done"]
             ELSE [proc EXCEPT ![p].pc = "makedirs"]
  /\ UNCHANGED <<dir_created, files>>

\* os.makedirs(output_dir, exist_ok=True)
Makedirs(p) ==
  /\ proc[p].pc = "makedirs"
  /\ IF proc[p].fault = "makedirs"
     THEN /\ proc' = [proc EXCEPT ![p].result = Failed("makedirs"), ![p].pc = "done"]
          /\ UNCHANGED dir_created
     ELSE /\ proc' = [proc EXCEPT ![p].pc = "head"]
          /\ dir_created' = TRUE
  /\ UNCHANGED files

\* prs = Presentation(), the title slide and the findings slide
AddHeadSlides(p) ==
  /\ proc[p].pc = "head"
  /\ proc' =
       IF proc[p].fault = "build"
       THEN [proc EXCEPT ![p].result = Failed("build"), ![p].pc = "done"]
       ELSE [proc EXCEPT
              ![Scope(p)].slides =
                 Presentation
                   \o (IF proc[p].include_title_slide
                       THEN <<TitleSlide(proc[p].topic, proc[p].research_data, now)>>
                       ELSE <<>>)
                   \o (IF Truthy(proc[p].research_data)
                       THEN <<FindingsSlide(proc[p].research_data)>> ELSE <<>>),
              ![p].pc = "visuals"]
  /\ UNCHANGED <<dir_created, files>>

\* the visuals are planned and their slides added
AddVisualSlides(p) ==
  /\ proc[p].pc = "visuals"
  /\ LET v == PlannedVisuals(proc[p].research_data) IN
     proc' = [proc EXCEPT
       ![Scope(p)].visuals = v,
       ![Scope(p)].slides = @ \o ChartSlides(v.bar_charts, "bar")
                              \o ChartSlides(v.pie_charts, "pie")
                              \o ChartSlides(v.tables, "table"),
       ![p].pc = "content"]
  /\ UNCHANGED <<dir_created, files>>

\* research_bullets is filled and the content slides added
AddContentSlides(p) ==
  /\ proc[p].pc = "content"
  /\ LET rd == proc[p].research_data
         bullets == IF Truthy(rd) THEN ResearchBullets(rd) ELSE <<>>
     IN proc' = [proc EXCEPT
          ![Scope(p)].research_bullets = bullets,
          ![Scope(p)].slides =
             @ \o [i \in 1..proc[p].num_slides |->
                     ContentSlide(proc[p].topic, proc[p].num_slides, rd, bullets, i)],
          ![p].pc = "save"]
  /\ UNCHANGED <<dir_created, files>>

\* prs.save(filepath) and the return
Save(p) ==
  /\ proc[p].pc = "save"
  /\ IF proc[p].fault = "save"
     THEN /\ proc' = [proc EXCEPT ![p].result = Failed("save"), ![p].pc = "done"]
          /\ UNCHANGED files
     ELSE LET path == FilePath(OutputDir, proc[p].topic, now) IN
          /\ proc' = [proc EXCEPT
               ![p].result = Created(path, TotalSlides(proc[p].num_slides,
                                                       proc[p].include_title_slide)),
               ![p].pc = "done"]
          /\ files' = files \cup {path}
  /\ UNCHANGED dir_created

ConcStep(p) ==
  \/ Validate(p)
  \/ Makedirs(p)
  \/ AddHeadSlides(p)
  \/ AddVisualSlides(p)
  \/ AddContentSlides(p)
  \/ Save(p)

ConcNext ==
  /\ \E p \in Procs : ConcStep(p)
  /\ UNCHANGED <<pc, topic, num_slides, include_title_slide, research_data, fault,
                 now, slides, result, tool_return, text_arg, chart_data, visuals, earlier,
                 subagent>>

ConcSpec == ConcInit /\ [][ConcNext]_vars

(***************************************************************************)
(* The content-slide loop of create_powerpoint, one iteration a step, on   *)
(* research texts made of bullet lines only.                               *)
(***************************************************************************)
\* The most bullet lines and the most content slides the loop is run on.
MaxBullets == 10
MaxLoopSlides == 5

\* A research line that passes the bullet filter: "<k> gold, 2 silver, 1 bronze"
BulletLine(k) == <<Str(k), "gold", ",", "2", "silver", ",", "1", "bronze">>
BulletTexts == {[k \in 1..len |-> BulletLine(k)] : len \in 0..MaxBullets}

LoopInit ==
  /\ pc = "composing"
  /\ topic = "A I" /\ include_title_slide = FALSE
  /\ num_slides \in 1..MaxLoopSlides
  /\ research_data \in BulletTexts
  /\ fault = "none" /\ now = 0
  /\ slides = <<>> /\ result = NoResult
  /\ dir_created = TRUE /\ files = {}
  /\ tool_return = NoResult
  /\ text_arg = None /\ chart_data = <<>> /\ visuals = NoVisuals
  /\ earlier = NoResult /\ proc = <<>> /\ subagent = IdleSubagent

\* one iteration of "for i in range(1, num_slides + 1)"
AddContentSlide ==
  /\ pc = "composing"
  /\ Len(slides) < num_slides
  /\ slides' = Append(slides, ContentSlide(topic, num_slides, research_data,
                                           research_bullets, Len(slides) + 1))
  /\ UNCHANGED <<pc, topic, num_slides, include_title_slide, research_data, fault,
                 now, result, dir_created, files, tool_return, text_arg,
                 chart_data, visuals, earlier, proc, subagent>>

\* the loop ends after num_slides iterations
EndContentLoop ==
  /\ pc = "composing"
  /\ Len(slides) = num_slides
  /\ pc' = "composed"
  /\ UNCHANGED <<topic, num_slides, include_title_slide, research_data, fault,
                 now, slides, result, dir_created, files, tool_return, text_arg,
                 chart_data, visuals, earlier, proc, subagent>>

LoopNext ==
  \/ AddContentSlide
  \/ EndContentLoop

LoopSpec == LoopInit /\ [][LoopNext]_vars

(***************************************************************************)
(* create_powerpoint on research texts written as markdown: headers, URLs, *)
(* bold section markers, bullet markers, short lines, section labels and   *)
(* "Label: value" lines.                                                   *)
(***************************************************************************)
MarkdownLines ==
  { <<>>,
    <<"#", "overview", "of", "the", "field">>,
    <<"https://example.org/solar-report">>,
    <<"**Key", "Findings:**">>,
    <<"**Solar**", "capacity", "grew", "strongly">>,
    <<"capacity", "grew", "strongly", "in", "**Asia**">>,
    <<"-", "wind", "power", "kept", "growing">>,
    <<"-", "short", "line">>,
    <<"Sources", "of", "the", "figures", "cited">>,
    <<"Summary:", "growth", "was", "strong">>,
    <<"wind", "power", "kept", "growing", "in", "the", "north:", "fast">> }

MarkdownTexts == UNION { [1..n -> MarkdownLines] : n \in 1..MaxLines }

\* create_powerpoint(topic, num_slides, False, output_dir, research_data) on a
\* markdown text
CreatePowerpointFromMarkdown ==
  /\ pc = "idle"
  /\ \E rd \in MarkdownTexts, n \in {MinSlides, MinSlides + 1} :
       LET o == create_powerpoint("A I", n, FALSE, OutputDir, rd, now, "none") IN
       /\ topic' = "A I" /\ num_slides' = n /\ include_title_slide' = FALSE
       /\ research_data' = rd /\ fault' = "none"
       /\ slides' = Presentation \o o.slides
       /\ result' = o.result
       /\ visuals' = o.visuals
       /\ dir_created' = (dir_created \/ o.made)
       /\ files' = files \cup o.saved
  /\ pc' = "created"
  /\ UNCHANGED <<now, tool_return, text_arg, chart_data, earlier, proc, subagent>>

MarkdownNext == CreatePowerpointFromMarkdown

MarkdownSpec == Init /\ [][MarkdownNext]_vars

(***************************************************************************)
(* The listing script and its tool wrapper, on a directory the             *)
(* environment has filled.                                                 *)
(***************************************************************************)
\* The file names a directory may hold, in the order sorted() gives them
\* (by code point).
FileNames == <<".pptx", "Z.pptx", "a.pptx", "b.pptx", "notes.txt", "old.pptx.bak">>
\* os.path.getsize of each, in bytes
FileSize(name) ==
  CASE name = ".pptx" -> 0 [] name = "Z.pptx" -> 256 [] name = "a.pptx" -> 30000
    [] name = "b.pptx" -> 1024 [] OTHER -> 10

\* round(size / 1024, 1), in tenths of a KB: the quotient is exact in binary
\* floating point, so a tie goes to the even digit
RoundKb(size) ==
  LET q == (size * 10) \div 1024
      r == (size * 10) % 1024
  IN IF 2 * r > 1024 \/ (2 * r = 1024 /\ q % 2 = 1) THEN q + 1 ELSE q

RECURSIVE SortedPptx(_, _)
\* sorted(f for f in os.listdir(output_dir) if f.endswith(".pptx")), from
\* position k of FileNames on
SortedPptx(names, k) ==
  IF k > Len(FileNames) THEN <<>>
  ELSE (IF FileNames[k] \in names /\ EndsWith(FileNames[k], ".pptx")
        THEN <<FileNames[k]>> ELSE <<>>) \o SortedPptx(names, k + 1)

RECURSIVE ListingLines(_, _)
\* the lines "{i}. {filename} ({size_kb} KB)" from entry i on
ListingLines(presentations, i) ==
  IF i > Len(presentations) THEN <<>>
  ELSE <<NL, i, presentations[i].filename, presentations[i].size_kb>>
         \o ListingLines(presentations, i + 1)

\* The script list_presentations(output_dir), the directory existing or not
\* and holding the files names; flt = "listdir" is os.listdir raising.
list_presentations(out, exists, names, flt) ==
  IF ~exists
  THEN [success |-> FALSE, error |-> <<"Output directory does not exist:", out>>,
        presentations |-> <<>>,
        message |-> <<"Output directory does not exist:", out>>]
  ELSE IF flt = "listdir"
  THEN [success |-> FALSE, error |-> "listdir", presentations |-> <<>>,
        message |-> <<"Error listing presentations:", "listdir">>]
  ELSE LET pptx_files == SortedPptx(names, 1)
           presentations ==
             [i \in 1..Len(pptx_files) |->
                [filename |-> pptx_files[i],
                 size_kb |-> RoundKb(FileSize(pptx_files[i])),
                 path |-> <<out, pptx_files[i]>>]]
       IN IF pptx_files = <<>>
          THEN [success |-> TRUE, presentations |-> <<>>,
                message |-> <<"No PowerPoint presentations found in", out>>]
          ELSE [success |-> TRUE, presentations |-> presentations,
                count |-> Len(presentations),
                message |-> <<"Found", Len(pptx_files), "presentation(s) in", out>>
                              \o ListingLines(presentations, 1)]

\* The bindings of the name list_presentations in the globals of tools.py, in
\* the order the module makes them: the import of the script's function,
\* then the @tool definition of the same name.
ListPresentationsBindings == <<"script function", "tool object">>
\* What the name is bound to when the wrapper's body runs: the last binding.
ListPresentationsGlobal == ListPresentationsBindings[Len(ListPresentationsBindings)]

\* The tool wrapper list_presentations(output_dir): it calls whatever the
\* global list_presentations is with output_dir=..., and returns the
\* "message" of the result.  A tool object does not take that call.
list_presentations_tool(out, exists, names, flt) ==
  IF ListPresentationsGlobal = "script function"
  THEN [returned |-> list_presentations(out, exists, names, flt).message]
  ELSE [raised |-> "TypeError"]

ListInit ==
  /\ pc = "idle"
  /\ dir_created \in BOOLEAN
  /\ files \in SUBSET {FileNames[k] : k \in 1..Len(FileNames)}
  /\ ~dir_created => files = {}
  /\ fault \in {"none", "listdir"}
  /\ topic = "" /\ num_slides = 0 /\ include_title_slide = FALSE
  /\ research_data = None /\ now = 0
  /\ slides = <<>> /\ result = NoResult
  /\ tool_return = NoResult
  /\ text_arg = None /\ chart_data = <<>> /\ visuals = NoVisuals
  /\ earlier = NoResult /\ proc = <<>> /\ subagent = IdleSubagent

\* a direct call of the script
ListScript ==
  /\ pc = "idle"
  /\ result' = list_presentations(OutputDir, dir_created, files, fault)
  /\ pc' = "listed"
  /\ UNCHANGED <<topic, num_slides, include_title_slide, research_data, fault, now,
                 slides, dir_created, files, tool_return, text_arg, chart_data,
                 visuals, earlier, proc, subagent>>

\* a call of the list_presentations tool
ListTool ==
  /\ pc = "idle"
  /\ tool_return' = list_presentations_tool(OutputDir, dir_created, files, fault)
  /\ pc' = "list_returned"
  /\ UNCHANGED <<topic, num_slides, include_title_slide, research_data, fault, now,
                 slides, result, dir_created, files, text_arg, chart_data,
                 visuals, earlier, proc, subagent>>

ListNext ==
  \/ ListScript
  \/ ListTool

ListSpec == ListInit /\ [][ListNext]_vars

(***************************************************************************)
(* research_subagent_tool (ppt_agent/subagents/research_agent.py): each    *)
(* invocation runs the sub-agent graph on the thread "research_subagent"   *)
(* of the graph's MemorySaver.  A run alternates the model node and the    *)
(* tools node, one super-step each; an entry of a thread stands for the    *)
(* messages one super-step (or the input) added to the conversation.       *)
(***************************************************************************)
\* "recursion_limit": 15
RecursionLimit == 15
\* The most invocations of the tool, and the most searches one model
\* message asks for.
MaxInvocations == 2
MaxToolCalls == 2
Queries == {"solar", "wind"}

\* The thread an invocation runs on: "thread_id": "research_subagent"
ThreadOf(call) == "research_subagent"

\* The conversation the sub-agent sees in the invocation under way.
Conversation == subagent.threads[ThreadOf(subagent.call)]

\* The messages a super-step of the invocation under way adds.
Message(role) == [role |-> role, call |-> subagent.call, query |-> subagent.query]

SubagentInit ==
  /\ pc = "subagent"
  /\ topic = "" /\ num_slides = 0 /\ include_title_slide = FALSE
  /\ research_data = None /\ fault = "none" /\ now = 0
  /\ slides = <<>> /\ result = NoResult
  /\ dir_created = FALSE /\ files = {}
  /\ tool_return = NoResult
  /\ text_arg = None /\ chart_data = <<>> /\ visuals = NoVisuals
  /\ earlier = NoResult /\ proc = <<>> /\ subagent = IdleSubagent

\* research_subagent_graph.invoke({"messages": [user message]}, config): the
\* input is added to the messages the checkpointer holds for the thread
InvokeSubagent ==
  /\ pc = "subagent"
  /\ subagent.status \in {"idle", "returned"}
  /\ subagent.call < MaxInvocations
  /\ \E q \in Queries :
       subagent' =
         [subagent EXCEPT
            !.threads[ThreadOf(subagent.call + 1)] =
               Append(@, [role |-> "user", call |-> subagent.call + 1, query |-> q]),
            !.call = @ + 1, !.query = q,
            !.steps = 0, !.pending = 0, !.searches = 0, !.status = "model"]
  /\ UNCHANGED <<pc, topic, num_slides, include_title_slide, research_data, fault,
                 now, slides, result, dir_created, files, tool_return, text_arg,
                 chart_data, visuals, earlier, proc>>

\* the model node answers with tool calls
ModelCallsTools ==
  /\ pc = "subagent"
  /\ subagent.status = "model" /\ subagent.steps < RecursionLimit
  /\ \E k \in 1..MaxToolCalls :
       subagent' =
         [subagent EXCEPT
            !.threads[ThreadOf(subagent.call)] = Append(@, Message("ai")),
            !.steps = @ + 1, !.pending = k, !.status = "tools"]
  /\ UNCHANGED <<pc, topic, num_slides, include_title_slide, research_data, fault,
                 now, slides, result, dir_created, files, tool_return, text_arg,
                 chart_data, visuals, earlier, proc>>

\* the tools node runs the searches the model asked for
RunSearches ==
  /\ pc = "subagent"
  /\ subagent.status = "tools" /\ subagent.steps < RecursionLimit
  /\ subagent' =
       [subagent EXCEPT
          !.threads[ThreadOf(subagent.call)] = Append(@, Message("tool")),
          !.steps = @ + 1, !.searches = @ + subagent.pending, !.pending = 0,
          !.status = "model"]
  /\ UNCHANGED <<pc, topic, num_slides, include_title_slide, research_data, fault,
                 now, slides, result, dir_created, files, tool_return, text_arg,
                 chart_data, visuals, earlier, proc>>

\* the model node answers without tool calls: the graph ends and the tool
\* returns messages[-1].content
ModelAnswers ==
  /\ pc = "subagent"
  /\ subagent.status = "model" /\ subagent.steps < RecursionLimit
  /\ subagent' =
       [subagent EXCEPT
          !.threads[ThreadOf(subagent.call)] = Append(@, Message("ai")),
          !.steps = @ + 1, !.status = "returned"]
  /\ UNCHANGED <<pc, topic, num_slides, include_title_slide, research_data, fault,
                 now, slides, result, dir_created, files, tool_return, text_arg,
                 chart_data, visuals, earlier, proc>>

\* the graph reaches the recursion limit before it ends: invoke raises
\* GraphRecursionError, which the tool does not catch
RecursionLimitReached ==
  /\ pc = "subagent"
  /\ subagent.status \in {"model", "tools"} /\ subagent.steps = RecursionLimit
  /\ subagent' = [subagent EXCEPT !.status = "raised"]
  /\ UNCHANGED <<pc, topic, num_slides, include_title_slide, research_data, fault,
                 now, slides, result, dir_created, files, tool_return, text_arg,
                 chart_data, visuals, earlier, proc>>

SubagentNext ==
  \/ InvokeSubagent
  \/ ModelCallsTools
  \/ RunSearches
  \/ ModelAnswers
  \/ RecursionLimitReached

SubagentSpec == SubagentInit /\ [][SubagentNext]_vars

(***************************************************************************)
(* Properties                                                              *)
(***************************************************************************)
Called == pc \in {"created", "returned"}
\* The call passed validation, os.makedirs and Presentation(): the deck was
\* composed.
Built ==
  /\ Called /\ ValidNumSlides(num_slides) /\ ValidTopic(topic)
  /\ fault \notin {"makedirs", "build"}

KindCount(kind) == Cardinality({i \in 1..Len(slides) : slides[i].kind = kind})
ArtifactCount(v) == Len(v.bar_charts) + Len(v.pie_charts) + Len(v.tables)

\* C1: for every valid input the number of slides added to the presentation
\* is (1 if include_title_slide) + (1 if research_data is present) + the
\* number of visual artifacts the planner returned + num_slides.
C1_SlideCount ==
  Built =>
    Len(slides) = (IF include_title_slide THEN 1 ELSE 0)
                    + (IF Truthy(research_data) THEN 1 ELSE 0)
                    + ArtifactCount(visuals) + num_slides

\* A deck with a title slide, research and at least two visual artifacts.
C1_Witness ==
  /\ Built /\ result.success
  /\ include_title_slide /\ Truthy(research_data)
  /\ ArtifactCount(visuals) >= 2
  /\ Len(slides) = 2 + ArtifactCount(visuals) + num_slides

GroupRank(kind) ==
  CASE kind = "title" -> 0 [] kind = "findings" -> 1 [] kind = "bar" -> 2
    [] kind = "pie" -> 3 [] kind = "table" -> 4 [] kind = "content" -> 5

\* C2: the slides of a composed deck are ordered: the optional title slide
\* first, then the single "Key Research Findings" slide when research is
\* present, then the bar charts, the pie charts, the tables, then the
\* num_slides content slides with index 1..num_slides in increasing order.
C2_SlideOrder ==
  Built =>
    /\ \A i, j \in 1..Len(slides) :
         i < j => GroupRank(slides[i].kind) <= GroupRank(slides[j].kind)
    /\ KindCount("title") = (IF include_title_slide THEN 1 ELSE 0)
    /\ include_title_slide => slides[1].kind = "title" /\ slides[1].title = topic
    /\ KindCount("findings") = (IF Truthy(research_data) THEN 1 ELSE 0)
    /\ \A i \in 1..Len(slides) :
         slides[i].kind = "findings" => slides[i].title = "Key Research Findings"
    /\ KindCount("content") = num_slides
    /\ \A k \in 1..num_slides :
         LET s == slides[Len(slides) - num_slides + k] IN
         s.kind = "content" /\ s.title = <<topic, "- Point", k>>

\* A deck that holds a slide of each of the six groups.
C2_Witness ==
  /\ Built
  /\ \A kind \in {"title", "findings", "bar", "pie", "table", "content"} :
       KindCount(kind) >= 1
  /\ num_slides >= 2

\* A string that is empty or holds only spaces.
Blank(str) == \A k \in 1..Len(str) : SubSeq(str, k, k) = " "

\* C3: with an empty or whitespace-only topic, or num_slides outside 1..20,
\* create_powerpoint returns an invalid-input result (success False,
\* filepath None), builds no slide, creates no directory and writes no file.
C3_InvalidInput ==
  Called /\ (Blank(topic) \/ num_slides < 1 \/ num_slides > 20) =>
    /\ result \in {InvalidNumSlides, InvalidTopic}
    /\ result.success = FALSE /\ result.filepath = NoPath
    /\ slides = <<>>
    /\ ~dir_created
    /\ files = {}

\* A whitespace-only topic with a valid slide count and no fault.
C3_Witness ==
  /\ Called /\ topic = "  " /\ ValidNumSlides(num_slides) /\ fault = "none"
  /\ result = InvalidTopic /\ slides = <<>> /\ ~dir_created /\ files = {}

\* C4: every outcome of create_powerpoint carries a success flag and a
\* message, so the create_presentation tool always returns a string.
C4_AlwaysMessage ==
  /\ Called => "success" \in DOMAIN result /\ "message" \in DOMAIN result
  /\ pc = "returned" => "returned" \in DOMAIN tool_return

\* C5: extract_numbers_from_text returns at most 8 Facts, each with an
\* integer value greater than 0.
C5_FactBounds ==
  pc = "extracted" =>
    /\ Len(chart_data) <= 8
    /\ \A i \in 1..Len(chart_data) :
         chart_data[i].value \in Int /\ chart_data[i].value > 0

\* More than 8 labelled positive candidates and a candidate of value 0.
C5_Witness ==
  /\ pc = "extracted"
  /\ Len(chart_data) = 8
  /\ LET c == AllCandidates(JoinLines(text_arg)) IN
     /\ Cardinality({c[i].label : i \in {k \in 1..Len(c) : c[k].value > 0}}) > 8
     /\ \E i \in 1..Len(c) : c[i].value <= 0

\* The candidates that survive deduplication: those of positive value that no
\* earlier candidate of positive value shares the label of (positive = TRUE),
\* or those whose label no earlier candidate at all shares (positive = FALSE).
FirstOccurrences(c, positive) ==
  {i \in 1..Len(c) :
     /\ positive => c[i].value > 0
     /\ \A j \in 1..(i - 1) :
          ~(c[j].label = c[i].label /\ (positive => c[j].value > 0))}
\* The k-th smallest member of a set of indices.
Nth(S, k) == CHOOSE i \in S : Cardinality({j \in S : j <= i}) = k

DistinctLabels ==
  \A i, j \in 1..Len(chart_data) :
    i # j => chart_data[i].label # chart_data[j].label

C7_LabelBounded ==
  pc = "extracted" =>
    \A i \in 1..Len(chart_data) :
      chart_data[i].label # <<>> /\ CharLen(chart_data[i].label) <= 30

IsVisualKind(kind) == kind \in {"bar", "pie", "table"}

\* C8: parse_research_for_visuals returns no bar chart, pie chart or table
\* when research_data is None or empty, and create_powerpoint then adds no
\* visual slide.
C8_AbsentResearch ==
  /\ pc = "parsed" /\ ~Truthy(text_arg) =>
       visuals.bar_charts = <<>> /\ visuals.pie_charts = <<>> /\ visuals.tables = <<>>
  /\ Called /\ ~Truthy(research_data) =>
       \A i \in 1..Len(slides) : ~IsVisualKind(slides[i].kind)

\* The planner called on the empty string.
C8_Witness ==
  pc = "parsed" /\ text_arg = << <<>> >> /\ ArtifactCount(visuals) = 0

\* The data points of a chart, the data rows of a table (its header apart).
DataPoints(kind, data) == IF kind = "table" THEN Len(data) - 1 ELSE Len(data)

\* C9: every artifact parse_research_for_visuals emits, and every chart or
\* table slide made of one, has at least 2 data points (tables: data rows).
C9_MinTwoPoints ==
  /\ pc = "parsed" \/ Called =>
       /\ \A i \in 1..Len(visuals.bar_charts) :
            DataPoints("bar", visuals.bar_charts[i].data) >= 2
       /\ \A i \in 1..Len(visuals.pie_charts) :
            DataPoints("pie", visuals.pie_charts[i].data) >= 2
       /\ \A i \in 1..Len(visuals.tables) :
            DataPoints("table", visuals.tables[i].data) >= 2
  /\ Called =>
       \A i \in 1..Len(slides) :
         IsVisualKind(slides[i].kind) =>
           DataPoints(slides[i].kind, slides[i].data) >= 2

\* A deck with a bar chart of exactly 2 points, a pie chart and a table.
C9_Witness ==
  /\ Built
  /\ KindCount("pie") >= 1 /\ KindCount("table") >= 1
  /\ \E i \in 1..Len(slides) :
       slides[i].kind = "bar" /\ DataPoints("bar", slides[i].data) = 2

\* C10: whenever the raw text holds a gold/silver/bronze triple, the planner
\* emits exactly one pie chart "Medal Type Distribution" with Gold, Silver,
\* Bronze carrying the integers of the first match, whatever Facts the
\* extractor returned.
C10_PieFromRawText ==
  pc = "parsed" /\ Truthy(text_arg) =>
    LET m == SearchMedalTypes(JoinLines(text_arg), 1) IN
    m.ok =>
      visuals.pie_charts =
        <<[title |-> "Medal Type Distribution",
           data |-> <<[label |-> <<"Gold">>, value |-> TrailInt(m.gold)],
                      [label |-> <<"Silver">>, value |-> TrailInt(m.silver)],
                      [label |-> <<"Bronze">>, value |-> TrailInt(m.bronze)]>>]>>

\* The members of a sequence of Facts whose label is a summary label
\* (summary = TRUE) or is not (summary = FALSE), in their order.
FactsOfClass(facts, summary) ==
  LET S == {i \in 1..Len(facts) : IsSummaryLabel(facts[i].label) = summary}
  IN [k \in 1..Cardinality(S) |-> facts[Nth(S, k)]]

\* C11: the planner emits a bar chart iff at least 2 extracted Facts are
\* entity facts; then there is exactly one, titled "Medal Count by Country",
\* holding the first up-to-8 entity facts in extraction order.
C11_BarChartIff ==
  pc = "parsed" =>
    LET entity_facts == FactsOfClass(extract_numbers_from_text(text_arg), FALSE) IN
    /\ visuals.bar_charts # <<>> <=> Len(entity_facts) >= 2
    /\ visuals.bar_charts # <<>> =>
         visuals.bar_charts =
           <<[title |-> "Medal Count by Country",
              data |-> SubSeq(entity_facts, 1, Min(8, Len(entity_facts)))]>>

\* A bar chart of exactly 2 entity facts, picked out from among summary facts.
C11_Witness ==
  /\ pc = "parsed"
  /\ Len(visuals.bar_charts) = 1
  /\ Len(visuals.bar_charts[1].data) = 2
  /\ Len(extract_numbers_from_text(text_arg)) > 2

\* C12: the planner emits a table iff at least 2 extracted Facts are summary
\* facts; then there is exactly one, titled "Event Statistics", whose first
\* row is the header Metric/Count followed by at most 5 rows (label,
\* stringified value) of the summary facts in extraction order; and no Fact
\* is in both the bar chart and the table.
C12_TableIff ==
  pc = "parsed" =>
    LET summary_facts == FactsOfClass(extract_numbers_from_text(text_arg), TRUE)
        rows == Min(5, Len(summary_facts))
    IN /\ visuals.tables # <<>> <=> Len(summary_facts) >= 2
       /\ visuals.tables # <<>> =>
            /\ Len(visuals.tables) = 1
            /\ visuals.tables[1].title = "Event Statistics"
            /\ Len(visuals.tables[1].data) = 1 + rows
            /\ visuals.tables[1].data[1] = <<"Metric", "Count">>
            /\ \A k \in 1..rows :
                 visuals.tables[1].data[k + 1]
                   = <<summary_facts[k].label, Str(summary_facts[k].value)>>
       /\ \A b \in 1..Len(visuals.bar_charts), t \in 1..Len(visuals.tables) :
            \A i \in 1..Len(visuals.bar_charts[b].data) :
              \A k \in 2..Len(visuals.tables[t].data) :
                visuals.bar_charts[b].data[i].label # visuals.tables[t].data[k][1]

\* A table next to a bar chart, with Facts of both classes extracted.
C12_Witness ==
  /\ pc = "parsed"
  /\ Len(visuals.tables) = 1 /\ Len(visuals.bar_charts) = 1
  /\ Len(visuals.tables[1].data) >= 4

\* The first paragraph of a content slide that got an empty slice.
NoBulletsText == <<"Additional insights related to", topic>>

\* The research bullets a content slide shows, in order.
BulletsOn(slide) ==
  IF slide.body = <<[text |-> NoBulletsText, level |-> 0]>> THEN <<>>
  ELSE [k \in 1..Len(slide.body) |-> slide.body[k].text]

\* Python's s[a:b] for 0 <= a and 0 <= b.
Slice(s, a, b) ==
  LET hi == IF b < Len(s) THEN b ELSE Len(s)
  IN [k \in 1..(IF hi > a THEN hi - a ELSE 0) |-> s[a + k]]

\* The per-slide bullet budget, max(3, floor(len(bullets) / num_slides)).
Budget == IF Len(research_bullets) \div num_slides > 3
          THEN Len(research_bullets) \div num_slides ELSE 3

\* C13: when research bullets exist, content slide i gets exactly
\* bullets[start:end] with budget = max(3, len(bullets) div num_slides),
\* start = (i-1)*budget, end = min(start+budget, len(bullets)); 10 bullets
\* over 3 slides give [0:3], [3:6], [6:9], and 2 bullets over 5 slides give
\* [0:2] and four empty slices.
C13_SliceOfSlide ==
  pc \in {"composing", "composed"} /\ research_bullets # <<>> =>
    /\ \A i \in 1..Len(slides) :
         LET start == (i - 1) * Budget
             end == IF start + Budget < Len(research_bullets)
                    THEN start + Budget ELSE Len(research_bullets)
         IN BulletsOn(slides[i]) = Slice(research_bullets, start, end)
    /\ pc = "composed" /\ Len(research_bullets) = 10 /\ num_slides = 3 =>
         /\ BulletsOn(slides[1]) = Slice(research_bullets, 0, 3)
         /\ BulletsOn(slides[2]) = Slice(research_bullets, 3, 6)
         /\ BulletsOn(slides[3]) = Slice(research_bullets, 6, 9)
    /\ pc = "composed" /\ Len(research_bullets) = 2 /\ num_slides = 5 =>
         /\ BulletsOn(slides[1]) = Slice(research_bullets, 0, 2)
         /\ \A i \in 2..5 : BulletsOn(slides[i]) = <<>>

\* The loop has run over 10 bullets and 3 slides.
C13_Witness ==
  /\ pc = "composed" /\ Len(research_bullets) = 10 /\ num_slides = 3
  /\ Len(slides) = 3 /\ Len(BulletsOn(slides[3])) = 3

\* How many times bullet k is shown on the content slides.
Shown(k) ==
  Cardinality({<<i, j>> \in (1..Len(slides)) \X (1..Len(research_bullets)) :
                 /\ j <= Len(BulletsOn(slides[i]))
                 /\ BulletsOn(slides[i])[j] = research_bullets[k]})

RECURSIVE BulletsUpTo(_)
\* The bullets of the first i content slides, concatenated.
BulletsUpTo(i) == IF i = 0 THEN <<>> ELSE BulletsUpTo(i - 1) \o BulletsOn(slides[i])

\* C14: the slides' bullets concatenated are a prefix of the bullet list;
\* after the loop every bullet of (0-based) index below budget*num_slides is
\* on exactly one slide and every other bullet on none.
C14_PrefixNoDuplicates ==
  pc \in {"composing", "composed"} /\ research_bullets # <<>> =>
    /\ BulletsUpTo(Len(slides))
         = Slice(research_bullets, 0, Budget * Len(slides))
    /\ \A k \in 1..Len(research_bullets) : Shown(k) <= 1
    /\ pc = "composed" =>
         \A k \in 1..Len(research_bullets) :
           Shown(k) = (IF k - 1 < Budget * num_slides THEN 1 ELSE 0)

\* The loop has ended and dropped trailing bullets.
C14_Witness ==
  /\ pc = "composed" /\ num_slides >= 2
  /\ Len(research_bullets) > Budget * num_slides
  /\ Shown(Len(research_bullets)) = 0 /\ Shown(1) = 1

C16_NoInterference ==
  pc = "concurrent" =>
    \A p \in Procs :
      proc[p].pc = "done" =>
        LET f == proc[p]
            alone == create_powerpoint(f.topic, f.num_slides, f.include_title_slide,
                                       OutputDir, f.research_data, now, f.fault)
        IN /\ f.result = alone.result
           /\ f.slides = alone.slides
           /\ f.visuals = alone.visuals

\* Two invocations with different arguments have both saved a deck, the
\* second one having started before the first one ended.
C16_Witness ==
  /\ pc = "concurrent"
  /\ \A p \in Procs : proc[p].pc = "done" /\ proc[p].result.success
  /\ proc[1].num_slides # proc[2].num_slides
  /\ proc[1].research_data # proc[2].research_data
  /\ Len(proc[1].slides) # Len(proc[2].slides)

\* C17: a failure after validation (os.makedirs, building the deck,
\* prs.save) is returned, never raised: the result has success False,
\* filepath None, error and message carrying the exception text, the tool
\* returns that message, and nothing is tried again (no file is saved).
C17_FailureReturned ==
  Called /\ ValidNumSlides(num_slides) /\ ValidTopic(topic) /\ fault # "none" =>
    /\ result.success = FALSE
    /\ result.filepath = NoPath
    /\ result.error = fault
    /\ result.message = <<"Error creating PowerPoint presentation:", fault>>
    /\ files = {}
    /\ fault = "makedirs" => ~dir_created
    /\ pc = "returned" => tool_return = [returned |-> result.message]

\* prs.save raised on a composed deck and the tool returned the message.
C17_Witness ==
  /\ pc = "returned" /\ fault = "save" /\ slides # <<>>
  /\ ValidNumSlides(num_slides) /\ ValidTopic(topic)
  /\ ~result.success /\ "returned" \in DOMAIN tool_return

\* The placeholder body of content slide i.
PlaceholderBody(i) ==
  <<[text |-> <<"Key concept", i, "related to", topic>>, level |-> 0],
    [text |-> <<"Supporting detail", 1, "for concept", i>>, level |-> 1],
    [text |-> <<"Supporting detail", 2, "for concept", i>>, level |-> 1],
    [text |-> <<"Supporting detail", 3, "for concept", i>>, level |-> 1]>>

\* C18: content slide i is headed "{topic} - Point {i}" and holds the
\* placeholder content exactly when there are no research bullets
\* (research_data absent, or no line of it passes the bullet filter); the
\* request then still succeeds.
C18_PlaceholderIffNoBullets ==
  Built =>
    /\ \A i \in 1..num_slides :
         LET s == slides[Len(slides) - num_slides + i] IN
         /\ s.title = <<topic, "- Point", i>>
         /\ s.body = PlaceholderBody(i) <=> research_bullets = <<>>
    /\ ~Truthy(research_data) => research_bullets = <<>>
    /\ research_bullets = <<>> /\ fault = "none" => result.success

\* Research is given and none of its lines is a bullet.
C18_Witness ==
  /\ Built /\ result.success /\ num_slides >= 2
  /\ Truthy(research_data) /\ research_bullets = <<>>
  /\ slides[Len(slides)].body = PlaceholderBody(num_slides)

\* C19: the "Key Research Findings" slide shows the first 8 research bullets
\* (the list the content slides use), the first as primary text and the rest
\* as sub-bullets, so it never shows a line the bullet filter rejects and
\* never more than 8 lines.
C19_FindingsFromBullets ==
  Built /\ Truthy(research_data) =>
    \A i \in 1..Len(slides) :
      slides[i].kind = "findings" =>
        LET body == slides[i].body IN
        /\ Len(body) <= 8
        /\ \A k \in 1..Len(body) :
             \/ \E b \in 1..Len(research_bullets) :
                  b <= 8 /\ body[k].text = research_bullets[b]
             \/ research_bullets = <<>>
                  /\ body[k].text
                       = <<"Research findings incorporated throughout presentation">>
        /\ research_bullets # <<>> =>
             /\ Len(body) = Min(8, Len(research_bullets))
             /\ \A k \in 1..Len(body) :
                  /\ body[k].text = research_bullets[k]
                  /\ body[k].level = (IF k = 1 THEN 0 ELSE 1)

\* C20: the list_presentations tool hands output_dir to the listing script
\* and returns the script's message (the numbered listing, the "none found"
\* message or the "does not exist" message); it always returns a string.
C20_ListToolReturnsMessage ==
  pc = "list_returned" =>
    /\ "returned" \in DOMAIN tool_return
    /\ tool_return
         = [returned |-> list_presentations(OutputDir, dir_created, files, fault).message]

\* The body of a content slide that got an empty slice.
FallbackBody == <<[text |-> NoBulletsText, level |-> 0]>>

\* C21 as stated: whenever len(bullets) < 3 * num_slides, the last content
\* slide's slice is empty and that slide shows fallback content (the
\* fallback line, or the generic placeholder when there is no bullet).
C21_LastSliceEmptyBelowThreePerSlide ==
  pc = "composed" /\ Len(research_bullets) < 3 * num_slides =>
    \/ slides[num_slides].body = FallbackBody
    \/ slides[num_slides].body = PlaceholderBody(num_slides)

\* C21 amended: with 1 <= len(bullets) < 3 * num_slides, content slide i
\* shows the fallback line exactly when len(bullets) <= 3 * (i - 1); so the
\* last slide does exactly when len(bullets) <= 3 * (num_slides - 1), and
\* otherwise holds a short, non-empty slice.
C21_LastSliceEmptyUpToThreePerEarlierSlide ==
  pc = "composed" /\ research_bullets # <<>>
    /\ Len(research_bullets) < 3 * num_slides =>
    /\ \A i \in 1..num_slides :
         slides[i].body = FallbackBody <=> Len(research_bullets) <= 3 * (i - 1)
    /\ Len(research_bullets) > 3 * (num_slides - 1) =>
         /\ slides[num_slides].body # FallbackBody
         /\ Len(slides[num_slides].body)
              = Len(research_bullets) - 3 * (num_slides - 1)

\* Three bullets over two slides: the second slide shows the fallback line.
C21_Witness ==
  /\ pc = "composed" /\ num_slides = 2 /\ Len(research_bullets) = 3
  /\ slides[2].body = FallbackBody /\ Len(slides[1].body) = 3

\* C22: no content slide has an empty body; when research bullets exist, a
\* slide whose slice is non-empty holds exactly the slice, one level-0
\* paragraph per bullet in order, a slide whose slice is empty holds the
\* single fallback line, and every slide after a fallback slide is a
\* fallback slide.
C22_NeverEmptyBody ==
  pc \in {"composing", "composed"} =>
    /\ \A i \in 1..Len(slides) : slides[i].body # <<>>
    /\ research_bullets # <<>> =>
         /\ \A i \in 1..Len(slides) :
              LET sl == Slice(research_bullets, (i - 1) * Budget, i * Budget) IN
              IF sl # <<>>
              THEN /\ Len(slides[i].body) = Len(sl)
                   /\ \A k \in 1..Len(sl) :
                        slides[i].body[k] = [text |-> sl[k], level |-> 0]
              ELSE slides[i].body = FallbackBody
         /\ \A i \in 1..Len(slides), j \in 1..Len(slides) :
              i < j /\ slides[i].body = FallbackBody => slides[j].body = FallbackBody

\* Two bullets over five slides: a short slice, then four fallback slides.
C22_Witness ==
  /\ pc = "composed" /\ num_slides = 5 /\ Len(research_bullets) = 2
  /\ Len(slides[1].body) = 2
  /\ \A i \in 2..5 : slides[i].body = FallbackBody

\* The research bullets that are on no content slide.
Dropped == {k \in 1..Len(research_bullets) : Shown(k) = 0}

\* C27: after the loop the number of research bullets on no content slide is
\* max(0, n - max(3, n div s) * s) for n bullets and s slides; it is 0
\* whenever n < 3 * s and always less than s.
C27_DroppedBullets ==
  pc = "composed" =>
    LET n == Len(research_bullets)
        s == num_slides
        kept == (IF n \div s > 3 THEN n \div s ELSE 3) * s
    IN /\ Cardinality(Dropped) = (IF n > kept THEN n - kept ELSE 0)
       /\ n < 3 * s => Dropped = {}
       /\ Cardinality(Dropped) < s

\* Seven bullets over two slides: the seventh is on no slide.
C27_Witness ==
  /\ pc = "composed" /\ num_slides = 2 /\ Len(research_bullets) = 7
  /\ Dropped = {7}

\* The pattern3 matches the extractor looks at, and those of them whose
\* unit is TW and whose number in GW is in [1, 1000000).
UnitMatches == Take(FindAll(3, JoinLines(text_arg), 1), 10)
TerawattMatches ==
  {i \in 1..Len(UnitMatches) :
     /\ UnitMatches[i].unit = "TW"
     /\ 1000 * NumInt[UnitMatches[i].value_str] >= 1
     /\ 1000 * NumInt[UnitMatches[i].value_str] < 1000000}

\* C23: a pattern3 quantity whose unit is TW is emitted as a Fact in GW: its
\* number times 1000, under the label relabelled with GW (unless the cap of
\* 8 Facts cut it off).
C23_TerawattAsGigawatt ==
  pc = "extracted" /\ Len(chart_data) < MaxFacts =>
    \A i \in TerawattMatches :
      \E k \in 1..Len(chart_data) :
        /\ chart_data[k].label[Len(chart_data[k].label)] \in {"(GW)", "(gw)"}
        /\ \E j \in TerawattMatches :
             chart_data[k].value = 1000 * NumInt[UnitMatches[j].value_str]

\* The line as the claim reads it after the bullet markers are stripped.
Unmarked(line) == StripMarkers(line, <<"-", "*", BulletSign>>)

\* The lines C24 says the flat-bullet extraction keeps.
KeptByRule(line) ==
  /\ line # <<>>
  /\ ~LineStartsWith(line, "#") /\ ~LineStartsWith(line, "http")
  /\ ~(LineStartsWith(line, "**") /\ LineEndsWith(line, "**"))
  /\ CharLen(Unmarked(line)) > 15
  /\ \A ph \in SectionLabels : ~StartsWithPhrase(Unmarked(line), ph)
  /\ ~LineStartsWith(Unmarked(line), "http")
  /\ ~ColonInFirst30(Unmarked(line))

\* C24: the research bullets are, in input order, the lines that are not
\* blank, do not start with '#' or a URL scheme, are not wholly wrapped in
\* '**' (a line with '**' at one end only stays), and after stripping the
\* leading bullet markers are longer than 15 characters, start with no
\* section label, are no URL and have no colon in their first 30
\* characters; the first content slide shows them.
C24_BulletFilter ==
  pc = "created" /\ result.success /\ Truthy(research_data) =>
    LET kept == {i \in 1..Len(research_data) : KeptByRule(research_data[i])}
        bullets == [k \in 1..Cardinality(kept) |->
                      Unmarked(research_data[Nth(kept, k)])]
        first == slides[Len(slides) - num_slides + 1]
    IN /\ research_bullets = bullets
       /\ bullets # <<>> /\ Len(bullets) <= 3 =>
            first.body = [k \in 1..Len(bullets) |-> [text |-> bullets[k], level |-> 0]]

\* C26: the total_slides a successful create_powerpoint returns, which is
\* the count its message shows, is the number of slides of the saved
\* presentation.
C26_TotalSlidesIsSlideCount ==
  pc = "created" /\ result.success =>
    /\ result.total_slides = Len(slides)
    /\ result.message[Len(result.message)] = Len(slides)

\* C28: two successful invocations into the same output_dir return
\* different filepaths, also for the same topic, so neither overwrites the
\* file of the other.
C28_DistinctFilepaths ==
  pc = "created_again" /\ earlier.result.success /\ result.success =>
    result.filepath # earlier.result.filepath

\* C25: an invocation of research_subagent_tool ends with its summary
\* returned, after at most 3 searches: the recursion limit keeps every run
\* within the documented maximum.
C25_AtMostThreeSearches ==
  pc = "subagent" =>
    /\ subagent.searches <= 3
    /\ subagent.status # "raised"

====
